---- MODULE Spec2Model ----
(***************************************************************************)
(* Model of the haiper_api service.                                        *)
(*                                                                         *)
(*   - process_rfil_workflow (src/app.py): the PDF endpoint, one process   *)
(*     per request, stepping through form parsing, the validation checks,  *)
(*     the temporary file, extraction, the response and the cleanup.       *)
(*   - the workflow persistence functions (src/src/integration/            *)
(*     database.py): create, update, soft delete and listing.              *)
(*                                                                         *)
(* process_pdf_end_to_end (src.functions.rfil_utils), assign_new_values    *)
(* (src.functions.utils) and the ORM models are not part of the available  *)
(* sources; they are modelled from the specification text and from the way *)
(* the available code calls them.                                          *)
(***************************************************************************)
EXTENDS Integers, Sequences, FiniteSets, TLC

VARIABLES
    pc,               \* request -> position inside process_rfil_workflow
    input,            \* request -> the submission (filename, bytes, form)
    additional_data,  \* request -> the dict built from the form fields
    file_id,          \* request -> the generated identifier, or NoId
    process_results,  \* request -> what process_pdf_end_to_end returned
    response,         \* request -> the HTTP response, once returned
    checks,           \* request -> the validation checks evaluated, in order
    fsOps,            \* request -> the file-system operations it performed
    readBytes,        \* request -> the bytes extraction read from the file
    tempDir,          \* whether temp_files/ exists
    files,            \* temp_files/: identifier -> [content, writer]
    issued,           \* identifiers uuid4 has handed out so far
    rows,             \* workflow table: id -> row, or Absent
    prevRows,         \* the table before the last database call
    lastOp,           \* the last database call and its result
    created,          \* ids whose create_workflow returned success
    deleted           \* ids whose delete_workflow returned success

pipeVars == <<pc, input, additional_data, file_id, process_results, response,
              checks, fsOps, readBytes, tempDir, files, issued>>
dbVars == <<rows, prevRows, lastOp, created, deleted>>
vars == <<pipeVars, dbVars>>

(***************************************************************************)
(* Bounds.                                                                 *)
(***************************************************************************)
\* Concurrent invocations of the endpoint.
NumReqs == 2
\* Pages of the largest submitted document.
MaxPages == 2
\* Distinct workflow ids.
MaxWorkflows == 2

Reqs == 1..NumReqs
\* The invocation followed when requests are taken one at a time.
Serial == {1}

(***************************************************************************)
(* Strings.  A filename is a sequence of characters, so that lower() and   *)
(* endswith() are computed rather than assumed.                            *)
(***************************************************************************)
\* str.lower() on one character of the alphabet used by the filenames.
LowerChar(c) ==
    CASE c = "A" -> "a"
      [] c = "P" -> "p"
      [] c = "D" -> "d"
      [] c = "F" -> "f"
      [] OTHER -> c

\* str.lower()
Lower(s) == [i \in 1..Len(s) |-> LowerChar(s[i])]

\* str.endswith(suffix)
EndsWith(s, suffix) ==
    /\ Len(s) >= Len(suffix)
    /\ SubSeq(s, Len(s) - Len(suffix) + 1, Len(s)) = suffix

\* The test of `if not rfil.filename.lower().endswith('.pdf')`, negated.
HasPdfExtension(name) == EndsWith(Lower(name), <<".", "p", "d", "f">>)

Filenames ==
    { <<"a", ".", "p", "d", "f">>,
      <<"A", ".", "P", "D", "F">>,
      <<"a", ".", "t", "x", "t">>,
      <<"p", "d", "f">> }

(***************************************************************************)
(* Form fields and json.loads.  A Python value is [t, s]: its type and its *)
(* printed form.                                                           *)
(***************************************************************************)
PyStr(s) == [t |-> "str", s |-> s]

\* The strings submitted as form field values.
FieldStrings == {"7", "abc", "\"x\"", "NaN"}

\* Whether json.loads(s) returns instead of raising JSONDecodeError.
JsonParses(s) == s \in {"7", "\"x\"", "NaN"}

\* json.loads(s) where it returns.
json_loads(s) ==
    CASE s = "7" -> [t |-> "int", s |-> "7"]
      [] s = "\"x\"" -> [t |-> "str", s |-> "x"]
      [] s = "NaN" -> [t |-> "float", s |-> "nan"]

\* A form value: an uploaded file or a string.
FileField == [kind |-> "file", s |-> ""]
StrField(s) == [kind |-> "str", s |-> s]

\* request.form(): field name -> value.  "rfil" is the uploaded PDF.
Forms ==
    { f \in UNION { [D -> {FileField} \cup {StrField(s) : s \in FieldStrings}] :
                    D \in { {"rfil"} \cup E : E \in SUBSET {"meta", "extra"} } } :
        /\ f["rfil"] = FileField
        /\ "meta" \in DOMAIN f => f["meta"].kind = "str"
        /\ "extra" \in DOMAIN f => f["extra"] \in {FileField, StrField("7")} }

EmptyDict == [k \in {} |-> PyStr("")]

(***************************************************************************)
(* Documents.  The uploaded bytes are described by what PyPDF2 and the     *)
(* extractor make of them: the outcome of PdfReader(), len(pages), the     *)
(* outcome of pages[0].extract_text(), and each page's text layer.         *)
(***************************************************************************)
Outcomes == {"ok", "PdfReadError", "Exception"}
Raises == Outcomes \ {"ok"}

MalformedDocs ==
    { [parse |-> e, npages |-> 0, probe |-> "Exception", layers |-> <<>>] :
        e \in Raises }
EmptyDocs ==
    { [parse |-> "ok", npages |-> 0, probe |-> "Exception", layers |-> <<>>] }
UnreadableDocs ==
    { [parse |-> "ok", npages |-> n, probe |-> e,
       layers |-> [p \in 1..n |-> "text"]] : n \in 1..MaxPages, e \in Raises }
ValidDocs ==
    UNION { { [parse |-> "ok", npages |-> n, probe |-> "ok", layers |-> l] :
                l \in [1..n -> {"text", "scan"}] } : n \in 1..MaxPages }
Docs == MalformedDocs \cup EmptyDocs \cup UnreadableDocs \cup ValidDocs

NoDoc == [parse |-> "none", npages |-> 0, probe |-> "none", layers |-> <<>>]

Submissions == [filename : Filenames, doc : Docs, form : Forms]
\* Submissions of the concurrent runs: the one-page documents that pass
\* validation and the empty one, under a PDF name and without further form
\* fields.
ConcSubmissions ==
    [filename : { <<"a", ".", "p", "d", "f">> },
     doc : EmptyDocs \cup { d \in ValidDocs : d.npages = 1 },
     form : { f \in Forms : DOMAIN f = {"rfil"} }]
NoInput == [filename |-> <<>>, doc |-> NoDoc, form |-> EmptyDict]

(***************************************************************************)
(* Responses.                                                              *)
(***************************************************************************)
NoId == 0
FileIds == 1..NumReqs
NoFile == [content |-> NoDoc, writer |-> 0]
NoResult == [status |-> "none", pages |-> <<>>]
NoResponse ==
    [code |-> 0, status |-> "", message |-> "", detail |-> "",
     filename |-> <<>>, file_id |-> NoId, pages |-> 0,
     process_results |-> NoResult, has_additional_data |-> FALSE,
     additional_data |-> EmptyDict]

\* raise HTTPException(status_code=400, detail=...): the body carries only
\* "detail".
HTTPException(code, detail) ==
    [NoResponse EXCEPT !.code = code, !.detail = detail]

\* JSONResponse(status_code=..., content={"status": "error", "message": ...})
ErrorResponse(code, message, detail) ==
    [NoResponse EXCEPT !.code = code, !.status = "error",
                       !.message = message, !.detail = detail]

\* The handler of `except Exception as e`.
ServerError(e) == ErrorResponse(500, "An error occurred", e)

\* The handler of `except PyPDF2.errors.PdfReadError`.
InvalidPdf == ErrorResponse(400, "The file is not a valid PDF", "PdfReadError")

\* What a raised exception becomes: the inner handler takes PdfReadError, the
\* outer one everything else.
Caught(e) == IF e = "PdfReadError" THEN InvalidPdf ELSE ServerError(e)

(***************************************************************************)
(* process_pdf_end_to_end(path, ocr_language, save_text): per page, the    *)
(* native text layer where there is one, OCR otherwise; a page whose OCR   *)
(* fails is kept with method "failed" and empty text.  Without a renderer  *)
(* or OCR engine, or when every page fails, the result is a failed one.    *)
(***************************************************************************)
PageResult(p, layer, ocrFails) ==
    [index |-> p,
     method |-> IF layer = "text" THEN "native"
                ELSE IF ocrFails THEN "failed" ELSE "ocr",
     text |-> IF layer = "text" THEN "native text"
              ELSE IF ocrFails THEN "" ELSE "ocr text"]

process_pdf_end_to_end(content, engine, ocrFail) ==
    LET n == content.npages
        needsOcr == \E p \in 1..n : content.layers[p] = "scan"
        pgs == [p \in 1..n |-> PageResult(p, content.layers[p], p \in ocrFail)]
    IN  IF needsOcr /\ engine = "unavailable"
        THEN [status |-> "failed", pages |-> <<>>]
        ELSE [status |-> IF n > 0 /\ \A p \in 1..n : pgs[p].method = "failed"
                         THEN "failed" ELSE "success",
              pages |-> pgs]

(***************************************************************************)
(* process_rfil_workflow, one step at a time.                              *)
(***************************************************************************)
\* The handler returns (or raises): the request completes with `resp`.
Return(r, resp) ==
    /\ response' = [response EXCEPT ![r] = resp]
    /\ pc' = [pc EXCEPT ![r] = "done"]

Goto(r, label) ==
    /\ pc' = [pc EXCEPT ![r] = label]
    /\ UNCHANGED response

Evaluate(r, check) == checks' = [checks EXCEPT ![r] = Append(@, check)]

\* A request arrives.
Submit(r, S) ==
    /\ pc[r] = "idle"
    /\ \E s \in S : input' = [input EXCEPT ![r] = s]
    /\ Goto(r, "form")
    /\ UNCHANGED <<additional_data, file_id, process_results, checks, fsOps,
                   readBytes, tempDir, files, issued, dbVars>>

\* Faulty variant: the field is stored as submitted, without json.loads.
ParsedValueRaw(s) == PyStr(s)

\* The value additional_data gets for a string field.
ParsedValue(s) == IF JsonParses(s) THEN json_loads(s) ELSE PyStr(s)

\* The loop over form.items().
ParseForm(r) ==
    /\ pc[r] = "form"
    /\ LET form == input[r].form
           kept == { f \in DOMAIN form :
                       /\ ~(f = "rfil" \/ form[f].kind = "file")
                       /\ form[f].kind = "str" }
       IN  additional_data' =
               [additional_data EXCEPT ![r] = [f \in kept |-> ParsedValue(form[f].s)]]
    /\ Goto(r, "extension")
    /\ UNCHANGED <<input, file_id, process_results, checks, fsOps, readBytes,
                   tempDir, files, issued, dbVars>>

\* Faulty variant: the extension is examined but a mismatch does not reject.
CheckExtensionNoReject(r) ==
    /\ pc[r] = "extension"
    /\ Evaluate(r, "extension")
    /\ Goto(r, "read")
    /\ UNCHANGED <<input, additional_data, file_id, process_results, fsOps,
                   readBytes, tempDir, files, issued, dbVars>>

\* if not rfil.filename.lower().endswith('.pdf'): raise HTTPException(400)
CheckExtension(r) ==
    /\ pc[r] = "extension"
    /\ Evaluate(r, "extension")
    /\ IF ~HasPdfExtension(input[r].filename)
       THEN Return(r, HTTPException(400, "Only PDF files are accepted"))
       ELSE Goto(r, "read")
    /\ UNCHANGED <<input, additional_data, file_id, process_results, fsOps,
                   readBytes, tempDir, files, issued, dbVars>>

\* contents = await rfil.read(); pdf_reader = PyPDF2.PdfReader(BytesIO(contents))
ParsePdf(r) ==
    /\ pc[r] = "read"
    /\ Evaluate(r, "parse")
    /\ IF input[r].doc.parse # "ok"
       THEN Return(r, Caught(input[r].doc.parse))
       ELSE Goto(r, "pages")
    /\ UNCHANGED <<input, additional_data, file_id, process_results, fsOps,
                   readBytes, tempDir, files, issued, dbVars>>

\* if len(pdf_reader.pages) < 1: return the 400 "empty or corrupt" response
CheckPages(r) ==
    /\ pc[r] = "pages"
    /\ Evaluate(r, "pages")
    /\ IF input[r].doc.npages < 1
       THEN Return(r, ErrorResponse(400, "The PDF file is empty or corrupt", ""))
       ELSE Goto(r, "probe")
    /\ UNCHANGED <<input, additional_data, file_id, process_results, fsOps,
                   readBytes, tempDir, files, issued, dbVars>>

\* Faulty variant: an exception of the probe is swallowed.
ProbeFirstPageSwallowed(r) ==
    /\ pc[r] = "probe"
    /\ Evaluate(r, "probe")
    /\ Goto(r, "uuid")
    /\ UNCHANGED <<input, additional_data, file_id, process_results, fsOps,
                   readBytes, tempDir, files, issued, dbVars>>

\* _ = pdf_reader.pages[0].extract_text()
ProbeFirstPage(r) ==
    /\ pc[r] = "probe"
    /\ Evaluate(r, "probe")
    /\ IF input[r].doc.probe # "ok"
       THEN Return(r, Caught(input[r].doc.probe))
       ELSE Goto(r, "uuid")
    /\ UNCHANGED <<input, additional_data, file_id, process_results, fsOps,
                   readBytes, tempDir, files, issued, dbVars>>

\* Faulty variant: an identifier that may have been handed out before.
uuid4Reused == FileIds

\* uuid.uuid4(): an identifier no earlier call has returned.
uuid4 == FileIds \ issued

\* file_id = str(uuid.uuid4())
GenerateId(r) ==
    /\ pc[r] = "uuid"
    /\ \E id \in uuid4 :
         /\ file_id' = [file_id EXCEPT ![r] = id]
         /\ issued' = issued \cup {id}
    /\ Goto(r, "makedirs")
    /\ UNCHANGED <<input, additional_data, process_results, checks, fsOps,
                   readBytes, tempDir, files, dbVars>>

\* os.makedirs(temp_dir, exist_ok=True), which may raise OSError
MakeTempDir(r) ==
    /\ pc[r] = "makedirs"
    /\ fsOps' = [fsOps EXCEPT ![r] = @ \cup {"makedirs"}]
    /\ \/ /\ tempDir' = TRUE
          /\ Goto(r, "write")
       \/ /\ ~tempDir
          /\ UNCHANGED tempDir
          /\ Return(r, ServerError("OSError"))
    /\ UNCHANGED <<input, additional_data, file_id, process_results, checks,
                   readBytes, files, issued, dbVars>>

\* with open(temp_file_path, "wb") as f: f.write(contents); open may raise
WriteTempFile(r) ==
    /\ pc[r] = "write"
    /\ fsOps' = [fsOps EXCEPT ![r] = @ \cup {"write"}]
    /\ \/ /\ files' = [files EXCEPT ![file_id[r]] =
                           [content |-> input[r].doc, writer |-> r]]
          /\ Goto(r, "extract")
       \/ /\ UNCHANGED files
          /\ Return(r, ServerError("OSError"))
    /\ UNCHANGED <<input, additional_data, file_id, process_results, checks,
                   readBytes, tempDir, issued, dbVars>>

\* process_results = process_pdf_end_to_end(temp_file_path, 'bul+eng', True)
Extract(r) ==
    /\ pc[r] = "extract"
    /\ IF files[file_id[r]] = NoFile
       THEN /\ UNCHANGED <<process_results, readBytes>>
            /\ Return(r, ServerError("FileNotFoundError"))
       ELSE LET content == files[file_id[r]].content IN
            /\ readBytes' = [readBytes EXCEPT ![r] = content]
            /\ \/ /\ UNCHANGED process_results
                  /\ Return(r, ServerError("Exception"))
               \/ \E engine \in {"ok", "unavailable"},
                     ocrFail \in SUBSET (1..content.npages) :
                    /\ process_results' = [process_results EXCEPT ![r] =
                           process_pdf_end_to_end(content, engine, ocrFail)]
                    /\ Goto(r, "remove")
    /\ UNCHANGED <<input, additional_data, file_id, checks, fsOps, tempDir,
                   files, issued, dbVars>>

\* os.remove(temp_file_path), which may raise OSError
RemoveTempFile(r) ==
    /\ pc[r] = "remove"
    /\ fsOps' = [fsOps EXCEPT ![r] = @ \cup {"remove"}]
    /\ IF files[file_id[r]] = NoFile
       THEN /\ UNCHANGED files
            /\ Return(r, ServerError("FileNotFoundError"))
       ELSE \/ /\ files' = [files EXCEPT ![file_id[r]] = NoFile]
               /\ Goto(r, "return")
            \/ /\ UNCHANGED files
               /\ Return(r, ServerError("OSError"))
    /\ UNCHANGED <<input, additional_data, file_id, process_results, checks,
                   readBytes, tempDir, issued, dbVars>>

\* The response_data dict.
response_data(r) ==
    [NoResponse EXCEPT
        !.code = 200,
        !.status = "success",
        !.message = "PDF file has been processed successfully",
        !.filename = input[r].filename,
        !.file_id = file_id[r],
        !.pages = input[r].doc.npages,
        !.process_results = process_results[r],
        !.has_additional_data = (additional_data[r] # EmptyDict),
        !.additional_data = additional_data[r]]

\* json.dumps(content, allow_nan=False) of JSONResponse raises ValueError on NaN.
Serializable(r) ==
    \A f \in DOMAIN additional_data[r] : additional_data[r][f].t # "float"

\* return JSONResponse(content=response_data)
SendResponse(r) ==
    /\ pc[r] = "return"
    /\ IF Serializable(r)
       THEN Return(r, response_data(r))
       ELSE Return(r, ServerError("ValueError"))
    /\ UNCHANGED <<input, additional_data, file_id, process_results, checks,
                   fsOps, readBytes, tempDir, files, issued, dbVars>>

Step(r) ==
    \/ ParseForm(r)
    \/ CheckExtension(r)
    \/ ParsePdf(r)
    \/ CheckPages(r)
    \/ ProbeFirstPage(r)
    \/ GenerateId(r)
    \/ MakeTempDir(r)
    \/ WriteTempFile(r)
    \/ Extract(r)
    \/ RemoveTempFile(r)
    \/ SendResponse(r)

(***************************************************************************)
(* The workflow table and the persistence functions.                       *)
(***************************************************************************)
WorkflowIds == 1..MaxWorkflows
WorkflowNames == {"intake", "review"}

Absent == [present |-> FALSE, name |-> "", is_deleted |-> FALSE]
NoOp == [op |-> "none", id |-> 0, status |-> "", list |-> {}]

\* The dict a persistence function returns, with the call that produced it.
Result(op, id, status) == [op |-> op, id |-> id, status |-> status, list |-> {}]

\* Faulty variant: the listing query without its is_deleted filter.
SelectAll(table) == { id \in WorkflowIds : table[id].present }

\* select(WorkflowStructure).where(WorkflowStructure.is_deleted == False)
SelectNotDeleted(table) ==
    { id \in WorkflowIds : table[id].present /\ table[id].is_deleted = FALSE }

\* get_all_workflows: the listing, or an error dict when the query raises.
get_all_workflows ==
    /\ \/ lastOp' = [Result("get_all", 0, "success") EXCEPT
                        !.list = { [id |-> id, name |-> rows[id].name] :
                                     id \in SelectNotDeleted(rows) }]
       \/ lastOp' = Result("get_all", 0, "error")
    /\ prevRows' = rows
    /\ UNCHANGED <<rows, created, deleted, pipeVars>>

\* WorkflowStructure(id=..., name=..., ...): is_deleted takes the column default.
NewWorkflow(name) == [present |-> TRUE, name |-> name, is_deleted |-> FALSE]

\* create_workflow: db.add and commit; a failed commit (a duplicate id among
\* others) is rolled back and reported.
create_workflow(id, name) ==
    /\ prevRows' = rows
    /\ \/ /\ ~rows[id].present
          /\ rows' = [rows EXCEPT ![id] = NewWorkflow(name)]
          /\ created' = created \cup {id}
          /\ lastOp' = Result("create", id, "success")
       \/ /\ UNCHANGED <<rows, created>>
          /\ lastOp' = Result("create", id, "error")
    /\ UNCHANGED <<deleted, pipeVars>>

\* assign_new_values(workflow, workflow_data): the attributes named in the
\* payload are overwritten.
assign_new_values(row, data) ==
    [present |-> TRUE,
     name |-> IF "name" \in DOMAIN data THEN data["name"] ELSE row.name,
     is_deleted |-> IF "is_deleted" \in DOMAIN data
                    THEN data["is_deleted"] ELSE row.is_deleted]

\* The payloads of update_workflow.
WorkflowData ==
    { [k \in {"name"} |-> n] : n \in WorkflowNames }
      \cup { [k \in {"is_deleted"} |-> b] : b \in BOOLEAN }

\* update_workflow
update_workflow(id, data) ==
    /\ prevRows' = rows
    /\ IF ~rows[id].present
       THEN /\ UNCHANGED rows
            /\ lastOp' = Result("update", id, "error")
       ELSE \/ /\ rows' = [rows EXCEPT ![id] = assign_new_values(@, data)]
               /\ lastOp' = Result("update", id, "success")
            \/ /\ UNCHANGED rows
               /\ lastOp' = Result("update", id, "error")
    /\ UNCHANGED <<created, deleted, pipeVars>>

\* workflow.is_deleted = True
MarkDeleted(row) == [row EXCEPT !.is_deleted = TRUE]

\* delete_workflow: not found is an error; otherwise the flag is set and
\* committed, and a failed commit is rolled back and reported.
delete_workflow(id) ==
    /\ prevRows' = rows
    /\ IF ~rows[id].present
       THEN /\ UNCHANGED <<rows, deleted>>
            /\ lastOp' = Result("delete", id, "error")
       ELSE \/ /\ rows' = [rows EXCEPT ![id] = MarkDeleted(@)]
               /\ deleted' = deleted \cup {id}
               /\ lastOp' = Result("delete", id, "success")
            \/ /\ UNCHANGED <<rows, deleted>>
               /\ lastOp' = Result("delete", id, "error")
    /\ UNCHANGED <<created, pipeVars>>

(***************************************************************************)
(* Specifications.                                                         *)
(***************************************************************************)
InitPipe ==
    /\ pc = [r \in Reqs |-> "idle"]
    /\ input = [r \in Reqs |-> NoInput]
    /\ additional_data = [r \in Reqs |-> EmptyDict]
    /\ file_id = [r \in Reqs |-> NoId]
    /\ process_results = [r \in Reqs |-> NoResult]
    /\ response = [r \in Reqs |-> NoResponse]
    /\ checks = [r \in Reqs |-> <<>>]
    /\ fsOps = [r \in Reqs |-> {}]
    /\ readBytes = [r \in Reqs |-> NoDoc]
    /\ tempDir \in BOOLEAN
    /\ files = [id \in FileIds |-> NoFile]
    /\ issued = {}

InitDb ==
    /\ rows = [id \in WorkflowIds |-> Absent]
    /\ prevRows = [id \in WorkflowIds |-> Absent]
    /\ lastOp = NoOp
    /\ created = {}
    /\ deleted = {}

Init == InitPipe /\ InitDb

\* One request at a time, over every submission.
Next == \E r \in Serial : Submit(r, Submissions) \/ Step(r)

Spec == Init /\ [][Next]_vars

\* Concurrent requests, interleaved step by step.
NextConc == \E r \in Reqs : Submit(r, ConcSubmissions) \/ Step(r)

SpecConc == Init /\ [][NextConc]_vars

\* The workflow endpoints, called in any order.
NextDb ==
    \/ get_all_workflows
    \/ \E id \in WorkflowIds, name \in WorkflowNames : create_workflow(id, name)
    \/ \E id \in WorkflowIds, data \in WorkflowData : update_workflow(id, data)
    \/ \E id \in WorkflowIds : delete_workflow(id)

SpecDb == Init /\ [][NextDb]_vars

(***************************************************************************)
(* Properties.                                                             *)
(***************************************************************************)
Done(r) == pc[r] = "done"
Submitted(r) == input[r] # NoInput

BadExtension(s) == ~HasPdfExtension(s.filename)
Malformed(s) == s.doc.parse # "ok"
ZeroPages(s) == s.doc.parse = "ok" /\ s.doc.npages < 1
Unreadable(s) == s.doc.parse = "ok" /\ s.doc.npages >= 1 /\ s.doc.probe # "ok"
FailsValidation(s) ==
    BadExtension(s) \/ Malformed(s) \/ ZeroPages(s) \/ Unreadable(s)

\* C1: whenever a request that created its temporary file has completed, on
\* whatever exit path, the file no longer exists.
C1_TempFileGoneAfterRequest ==
    \A r \in Reqs :
        Done(r) /\ file_id[r] # NoId => files[file_id[r]] = NoFile

\* C2: a submission that fails validation (extension, parse, page count or
\* first-page probe) never touches temporary storage: no identifier is drawn,
\* temp_files is not created and no file is written.
C2_NoStorageForInvalidSubmission ==
    \A r \in Reqs :
        Submitted(r) /\ FailsValidation(input[r]) =>
            /\ fsOps[r] = {}
            /\ file_id[r] = NoId
            /\ \A id \in FileIds : files[id].writer # r

C2_Witness ==
    \E r \in Reqs :
        /\ Done(r)
        /\ Unreadable(input[r])
        /\ ~BadExtension(input[r])
        /\ Len(checks[r]) = 4
        /\ response[r].code >= 400

\* C3: every input error is answered with a 4xx response, never with a 200 or
\* a 5xx, whatever exception the parser or the first-page probe raises.
C3_InputErrorsAre4xx ==
    \A r \in Reqs :
        Done(r) /\ FailsValidation(input[r]) =>
            response[r].code \in 400..499

\* C4: a success response reports the document's page count N and carries
\* exactly N per-page results in ascending index order; a response whose page
\* count differs from the number of per-page results is never a success.
C4_SuccessHasOneResultPerPage ==
    \A r \in Reqs :
        Done(r) /\ response[r].code = 200 /\ response[r].status = "success" =>
            /\ response[r].pages = input[r].doc.npages
            /\ Len(response[r].process_results.pages) = response[r].pages
            /\ \A i \in 1..Len(response[r].process_results.pages) :
                   response[r].process_results.pages[i].index = i

\* C5: when process_pdf_end_to_end returns a failed result, the response does
\* not report a bare overall status "success".
C5_FailedResultIsNotSuccess ==
    \A r \in Reqs :
        Done(r) /\ process_results[r].status = "failed" =>
            response[r].status # "success"

\* C6: when removing the temporary file fails after extraction succeeded, the
\* request still returns the 200 success response with the extraction results.
C6_RemoveFailureStillSucceeds ==
    \A r \in Reqs :
        (/\ Done(r)
         /\ process_results[r].status = "success"
         /\ "remove" \in fsOps[r]
         /\ files[file_id[r]] # NoFile) =>
            /\ response[r].code = 200
            /\ response[r].status = "success"
            /\ response[r].process_results = process_results[r]

\* C7: under any interleaving, no two invocations share a temporary location:
\* identifiers are pairwise distinct, a file holds the bytes of the invocation
\* its name belongs to for as long as that invocation uses it, and extraction
\* reads exactly the bytes its own invocation wrote.
C7_NoSharedLocation ==
    /\ \A r1, r2 \in Reqs :
          r1 # r2 /\ file_id[r1] # NoId => file_id[r1] # file_id[r2]
    /\ \A r \in Reqs :
          pc[r] \in {"extract", "remove"} =>
              files[file_id[r]] = [content |-> input[r].doc, writer |-> r]
    /\ \A r \in Reqs : readBytes[r] # NoDoc => readBytes[r] = input[r].doc
    /\ \A id \in FileIds : files[id] # NoFile => file_id[files[id].writer] = id

C7_Witness ==
    \E r1, r2 \in Reqs :
        /\ r1 # r2
        /\ pc[r1] = "remove"
        /\ pc[r2] = "extract"
        /\ input[r1].doc # input[r2].doc
        /\ readBytes[r1] = input[r1].doc

\* The string fields of a form other than "rfil".
MetadataFields(form) ==
    { f \in DOMAIN form : f # "rfil" /\ form[f].kind = "str" }

CheckOrder == <<"extension", "parse", "pages", "probe">>

\* The position in CheckOrder of the first check a submission fails.
FirstFailing(s) ==
    IF BadExtension(s) THEN 1
    ELSE IF s.doc.parse # "ok" THEN 2
    ELSE IF s.doc.npages < 1 THEN 3
    ELSE 4

\* C9: the checks run in the order extension, parse, page count, probe; the
\* first failing check ends validation and determines the error, and the
\* bytes are never parsed once the extension check has rejected the file.
C9_ChecksInFixedOrder ==
    \A r \in Reqs :
        /\ Len(checks[r]) <= 4
        /\ checks[r] = SubSeq(CheckOrder, 1, Len(checks[r]))
        /\ Submitted(r) /\ BadExtension(input[r]) => Len(checks[r]) <= 1
        /\ Done(r) /\ FailsValidation(input[r]) =>
              LET k == FirstFailing(input[r]) IN
              /\ Len(checks[r]) = k
              /\ k = 1 => response[r].detail = "Only PDF files are accepted"
              /\ k = 2 => response[r].detail = input[r].doc.parse
              /\ k = 3 => response[r].message = "The PDF file is empty or corrupt"
              /\ k = 4 => response[r].detail = input[r].doc.probe

C9_Witness ==
    \E r \in Reqs :
        /\ Done(r)
        /\ BadExtension(input[r])
        /\ input[r].doc.parse # "ok"
        /\ checks[r] = <<"extension">>
        /\ response[r].code = 400

\* C10: deletion is a soft delete.  A listing returned by get_all_workflows
\* holds no workflow whose delete succeeded and whose is_deleted flag is set;
\* no call removes a row; delete_workflow on a missing id returns an error and
\* leaves the table as it was.
C10_SoftDeleteHidesWorkflow ==
    /\ lastOp.op = "get_all" =>
          \A id \in deleted :
              rows[id].is_deleted => id \notin { w.id : w \in lastOp.list }
    /\ \A id \in WorkflowIds : prevRows[id].present => rows[id].present
    /\ \A id \in created : rows[id].present
    /\ lastOp.op = "delete" /\ lastOp.status = "success" =>
          rows[lastOp.id].present /\ rows[lastOp.id].is_deleted
    /\ lastOp.op = "delete" /\ ~prevRows[lastOp.id].present =>
          lastOp.status = "error" /\ rows = prevRows

C10_Witness ==
    /\ lastOp.op = "get_all"
    /\ lastOp.status = "success"
    /\ lastOp.list # {}
    /\ \E id \in deleted : rows[id].is_deleted

====
